---- MODULE Spec2Model ----
(***************************************************************************)
(* Al-Minar client (minarAPI/static/js/app.js): the JWT session kept in    *)
(* localStorage (Auth), the authenticated fetch wrapper (authFetch) with   *)
(* its refresh-and-retry, the login / registration / logout handlers, the  *)
(* masjid report submission with its verify buttons, the badge cards of    *)
(* the detail page and the badge verification page.  The server is not     *)
(* part of app.js: what it stores and answers follows the reference design *)
(* (confidence engine, activation gate, badge lifecycle, verification      *)
(* resolver).                                                              *)
(*                                                                         *)
(* JavaScript runs each handler to its next `await` without interruption,  *)
(* so every action below is one such run: from the event that resumes a    *)
(* handler (a click, a fetch settling, a body being read) to the next      *)
(* await it suspends on.  A promise returned by an async function of this  *)
(* file and awaited by its caller resumes the caller in the same microtask *)
(* checkpoint; these hops are part of the same action.                     *)
(***************************************************************************)
EXTENDS Integers, Sequences, FiniteSets, TLC

\* ---------------------------------------------------------------- bounds
MaxTok == 4        \* credentials the token endpoints issue in one behaviour
MaxMasjids == 1    \* masjids the server stores in one behaviour
MaxSignals == 4    \* signals the server stores in one behaviour
MaxBadges == 1     \* badges the server issues in one behaviour
MaxNow == 3        \* instants the clock runs through

\* ------------------------------------------------------------- constants
null == 0                      \* localStorage.getItem of an absent key
NoResponse == 0                \* `res` before any response was received
Statuses == {200, 400, 401}    \* an OK answer, a non-OK answer, authentication failure
Usernames == {"amina"}
AccountTypes == {"user", "masjid_admin"}
nullUser == [username |-> "null", accountType |-> "null"]   \* JSON.parse('null')
ReportCall == "report"         \* the authFetch calls of submitMasjidReport
ButtonSeq == <<"b1">>          \* .verify-pending-btn elements of the report page, in card order
Buttons == {ButtonSeq[i] : i \in DOMAIN ButtonSeq}
Calls == {ReportCall} \cup Buttons
Names == {"", "Al-Noor"}
Descs == {"d"}                 \* the description is sent along and decides nothing
PendingShown == 6              \* masjids.slice(0, 6)
Identities == {"amina", "bilal", "chadi"}   \* submitter identities the server knows
Submitters == Identities \cup {"null"}        \* "null": an anonymous submitter
Roles == {"USER", "ADMIN"}
Workers == {"w1", "w2"}        \* corroborate requests the server handles at a time
Threshold == 3                 \* "needs 3 signals": distinct submitters that list a masjid

VARIABLES
  localStorage,   \* al_access, al_refresh, al_user
  calls,          \* per call site: the authFetch invocation in progress
  login,          \* the login form's submit handler
  register,       \* the registration form's submit handler
  page,           \* the report page: what initReport set up
  alert,          \* #report-alert: "none", "success" or "danger"
  masjids,        \* server: the masjids stored, oldest first
  signals,        \* server: the signals stored, oldest first
  issued,         \* server: how many credentials the token endpoints issued
  destroyed,      \* history: the session was cleared and not saved since
  failedAuth,     \* history: credentials answered 401 with no refresh attempted since
  workers,        \* server: the corroborate requests being handled
  lock,           \* server: per masjid, the request holding its exclusion
  badges,         \* server: the badges issued, oldest first
  now,            \* the clock
  verify,         \* the badge verification page (/verify/<token>/)
  detail          \* the masjid detail page: its badge cards

vars == <<localStorage, calls, login, register, page, alert, masjids, signals, issued,
          destroyed, failedAuth, workers, lock, badges, now, verify, detail>>

\* the variables the client's session and report handlers never touch
others == <<workers, lock, badges, now, verify, detail>>
\* the variables of the session and of the report page
client == <<localStorage, calls, login, register, page, alert, issued, destroyed, failedAuth>>

\* ------------------------------------------------------------------ Auth
getAccess == localStorage.al_access
getRefresh == localStorage.al_refresh
getUser == localStorage.al_user
isLoggedIn == getAccess # null

save(access, refresh, user) ==
  [al_access |-> access, al_refresh |-> refresh, al_user |-> user]

clear == [al_access |-> null, al_refresh |-> null, al_user |-> nullUser]

\* localStorage.setItem(key, value) on one key
setAccess(store, access) == [store EXCEPT !.al_access = access]
setRefresh(store, refresh) == [store EXCEPT !.al_refresh = refresh]

ok(status) == status \in 200..299

\* ------------------------------------------------------------- authFetch
noBody ==
  [masjid |-> 0, name |-> "", description |-> "", isActive |-> FALSE,
   signalType |-> "", sourceType |-> "", user |-> "null"]

idleCall ==
  [pc |-> "idle", url |-> "none", body |-> noBody, authorization |-> null,
   res |-> NoResponse, thrown |-> FALSE, sends |-> 0, refreshes |-> 0,
   first |-> NoResponse, second |-> NoResponse, refreshed |-> "none",
   got |-> null, stale |-> null]

\* faulty variant: the Authorization header is never attached
authFetchSend_noHeader(url, body) ==
  [idleCall EXCEPT !.pc = "fetch", !.url = url, !.body = body, !.sends = 1]

\* lines 51-55: attach the stored access credential when there is one, send
authFetchSend(url, body) ==
  [idleCall EXCEPT !.pc = "fetch", !.url = url, !.body = body,
                   !.authorization = IF getAccess # null THEN getAccess ELSE null,
                   !.sends = 1]

\* history: the credential of call c's request, when it is answered 401
answered401(c, status) ==
  IF status = 401 /\ calls[c].authorization # null
  THEN {calls[c].authorization} ELSE {}

\* faulty variant: line 56 without `&& Auth.getRefresh()`
needsRefresh_any401(status) == status = 401

\* line 56: the condition under which a response leads to a refresh
needsRefresh(status) == status = 401 /\ getRefresh # null

\* A handler awaiting authFetch resumes in the microtask checkpoint in which
\* authFetch returns or throws, before any other event is handled, unless it
\* first awaits the response's body (lines 1082, 1087, 1104).
awaitsBody(c) ==
  /\ ~calls[c].thrown
  /\ \/ calls[c].url = "masjids"
     \/ calls[c].url = "location-records" /\ ~ok(calls[c].res)
microtask(c) == calls[c].pc = "return" /\ ~awaitsBody(c)
noMicrotask == \A c \in Calls : ~microtask(c)
runnable(c) == \A d \in Calls : microtask(d) => d = c

\* server: POST /api/masjids/ accepted; of the stored masjid the model keeps
\* the id, the visibility and (history) the role it was submitted under and
\* how often it went from unlisted to listed
serverCreateMasjid(body, role) ==
  [masjidID |-> Len(masjids) + 1, isActive |-> body.isActive, role |-> role, flips |-> 0]

\* server: the signal stored for an accepted POST /api/signals/: what was
\* sent and (history) whether it accompanied the submission of its masjid
\* and whether the masjid was unlisted when it was written
serverSignal(body, initial, pending) ==
  [masjid |-> body.masjid, signalType |-> body.signalType,
   sourceType |-> body.sourceType, user |-> body.user,
   initial |-> initial, pending |-> pending]

\* server: the distinct submitters among the USER signals of masjid m; the
\* signals of one identity count once, each anonymous signal counts
distinctSubmitters(sigs, m) ==
  LET mine == {i \in DOMAIN sigs : sigs[i].masjid = m /\ sigs[i].sourceType = "USER"}
  IN Cardinality({sigs[i].user : i \in {j \in mine : sigs[j].user # "null"}})
     + Cardinality({i \in mine : sigs[i].user = "null"})

\* faulty variant: no corroboration is a duplicate
duplicateSignal_never(listed, sigs, s) == FALSE

\* server: a corroboration of a still unlisted masjid by an identity that
\* already corroborated it
duplicateSignal(listed, sigs, s) ==
  /\ ~listed
  /\ ~s.initial
  /\ s.user # "null"
  /\ \E i \in DOMAIN sigs :
       sigs[i].masjid = s.masjid /\ ~sigs[i].initial /\ sigs[i].user = s.user

\* faulty variant: the masjid is listed one submitter early
gateWrite_early(ms, sigs, s, listed, count) ==
  [signals |-> Append(sigs, s),
   masjids |-> [i \in DOMAIN ms |->
                  IF i = s.masjid /\ ~listed /\ count >= Threshold - 1
                  THEN [ms[i] EXCEPT !.isActive = TRUE, !.flips = ms[i].flips + 1]
                  ELSE ms[i]]]

\* server: signal s is written; the masjid read as unlisted with `count`
\* distinct submitters (s included) is listed when the count reached Threshold
gateWrite(ms, sigs, s, listed, count) ==
  [signals |-> Append(sigs, s),
   masjids |-> [i \in DOMAIN ms |->
                  IF i = s.masjid /\ ~listed /\ count >= Threshold
                  THEN [ms[i] EXCEPT !.isActive = TRUE, !.flips = ms[i].flips + 1]
                  ELSE ms[i]]]

\* faulty variant: the submitter count is looked at before ADMIN_VERIFY
computeLevel_countFirst(sigs, m) ==
  LET mine == {i \in DOMAIN sigs : sigs[i].masjid = m}
      count == distinctSubmitters(sigs, m)
  IN IF count >= Threshold THEN 2
     ELSE IF \E i \in mine : sigs[i].signalType = "ADMIN_VERIFY" THEN 3
     ELSE IF count >= 1 /\ \E i \in mine : ~sigs[i].initial THEN 1
     ELSE 0

\* server: the confidence level of masjid m from its signals, first match wins:
\* an ADMIN_VERIFY gives 3; else Threshold distinct USER submitters give 2;
\* else one or more of them with a signal beyond the initial one give 1; else 0
computeLevel(sigs, m) ==
  LET mine == {i \in DOMAIN sigs : sigs[i].masjid = m}
      count == distinctSubmitters(sigs, m)
  IN IF \E i \in mine : sigs[i].signalType = "ADMIN_VERIFY" THEN 3
     ELSE IF count >= Threshold THEN 2
     ELSE IF count >= 1 /\ \E i \in mine : ~sigs[i].initial THEN 1
     ELSE 0

\* The server's effect of answering `status` to the request of call c.  The
\* handling of one request is atomic here; the requests handled concurrently
\* are those of `workers`.
serverEffect(c, status) ==
  IF calls[c].url = "masjids" /\ ok(status)
  THEN /\ Len(masjids) < MaxMasjids
       /\ masjids' = Append(masjids,
            serverCreateMasjid(calls[c].body, IF page.isAdmin THEN "ADMIN" ELSE "USER"))
       /\ UNCHANGED signals
  ELSE IF calls[c].url = "signals" /\ ok(status)
  THEN LET m == calls[c].body.masjid
           s == serverSignal(calls[c].body, c = ReportCall, ~masjids[m].isActive)
           w == gateWrite(masjids, signals, s, masjids[m].isActive,
                          distinctSubmitters(Append(signals, s), m))
       IN /\ Len(signals) < MaxSignals
          /\ lock[m] = "free"
          /\ ~duplicateSignal(masjids[m].isActive, signals, s)
          /\ signals' = w.signals
          /\ masjids' = w.masjids
  ELSE UNCHANGED <<masjids, signals>>

\* line 55 settles with a response; lines 56-57, 32-40, 63
authFetchResponse(c, status) ==
  /\ noMicrotask
  /\ calls[c].pc = "fetch"
  /\ serverEffect(c, status)
  /\ IF needsRefresh(status)
     THEN calls' = [calls EXCEPT ![c].pc = "refresh", ![c].res = status,
                                 ![c].first = status,
                                 ![c].refreshes = calls[c].refreshes + 1]
     ELSE calls' = [calls EXCEPT ![c].pc = "return", ![c].res = status,
                                 ![c].first = status]
  /\ failedAuth' = IF needsRefresh(status) THEN {}
                   ELSE failedAuth \cup answered401(c, status)
  /\ UNCHANGED <<localStorage, login, register, page, alert, issued, destroyed, others>>

\* faulty variant: a rejected fetch is handled like a failed refresh (session cleared)
authFetchRejected_clears(c) ==
  /\ noMicrotask
  /\ calls[c].pc \in {"fetch", "retry"}
  /\ calls' = [calls EXCEPT ![c].pc = "return", ![c].thrown = TRUE]
  /\ localStorage' = clear
  /\ destroyed' = TRUE
  /\ UNCHANGED <<login, register, page, alert, masjids, signals, issued, failedAuth, others>>

\* line 55 or line 60 rejects: no response at all; authFetch throws
authFetchRejected(c) ==
  /\ noMicrotask
  /\ calls[c].pc \in {"fetch", "retry"}
  /\ calls' = [calls EXCEPT ![c].pc = "return", ![c].thrown = TRUE]
  /\ UNCHANGED <<localStorage, login, register, page, alert, masjids, signals, issued, destroyed, failedAuth, others>>

\* faulty variant: line 41 without this.clear()
refreshTokenFailed_keepsSession(c) ==
  /\ noMicrotask
  /\ calls[c].pc = "refresh"
  /\ calls' = [calls EXCEPT ![c].pc = "return", ![c].refreshed = "false"]
  /\ UNCHANGED <<localStorage, login, register, page, alert, masjids, signals, issued, destroyed, failedAuth, others>>

\* line 36 settles with a non-OK response (line 41), or rejects (line 46):
\* the session is cleared, refreshToken returns false, authFetch returns res
refreshTokenFailed(c) ==
  /\ noMicrotask
  /\ calls[c].pc = "refresh"
  /\ localStorage' = clear
  /\ destroyed' = TRUE
  /\ calls' = [calls EXCEPT ![c].pc = "return", ![c].refreshed = "false"]
  /\ UNCHANGED <<login, register, page, alert, masjids, signals, issued, failedAuth, others>>

\* line 36 settles with an OK response: line 42 awaits its body
refreshTokenOk(c) ==
  /\ noMicrotask
  /\ calls[c].pc = "refresh"
  /\ issued < MaxTok
  /\ calls' = [calls EXCEPT ![c].pc = "refreshBody"]
  /\ UNCHANGED <<localStorage, login, register, page, alert, masjids, signals, issued, destroyed, failedAuth, others>>

\* line 42 rejects (the body is no JSON): line 46
refreshTokenBodyFailed(c) ==
  /\ noMicrotask
  /\ calls[c].pc = "refreshBody"
  /\ localStorage' = clear
  /\ destroyed' = TRUE
  /\ calls' = [calls EXCEPT ![c].pc = "return", ![c].refreshed = "false"]
  /\ UNCHANGED <<login, register, page, alert, masjids, signals, issued, failedAuth, others>>

\* faulty variant: line 44 without `if (data.refresh)`
refreshStore_always(store, access, refresh) ==
  setRefresh(setAccess(store, access), refresh)

\* lines 43-44: what a refresh answer {access, refresh?} leaves in the store
refreshStore(store, access, refresh) ==
  IF refresh # null THEN setRefresh(setAccess(store, access), refresh)
  ELSE setAccess(store, access)

\* faulty variant: line 59 missing, the retry goes out with the header of the first send
authFetchRetry_staleHeader(call, store) ==
  [call EXCEPT !.pc = "retry", !.refreshed = "true",
               !.stale = call.authorization,
               !.sends = call.sends + 1]

\* lines 59-60: the retry carries the access credential now stored
authFetchRetry(call, store) ==
  [call EXCEPT !.pc = "retry", !.refreshed = "true",
               !.stale = call.authorization,
               !.authorization = store.al_access,
               !.sends = call.sends + 1]

\* line 42 settles with {access, refresh?}; lines 43-45, then 58-60
refreshTokenBody(c, rotate) ==
  /\ noMicrotask
  /\ calls[c].pc = "refreshBody"
  /\ issued + (IF rotate THEN 2 ELSE 1) <= MaxTok
  /\ LET access == issued + 1
         refresh == IF rotate THEN issued + 2 ELSE null
         store == refreshStore(localStorage, access, refresh)
     IN /\ localStorage' = store
        /\ calls' = [calls EXCEPT ![c] = authFetchRetry([calls[c] EXCEPT !.got = access], store)]
  /\ issued' = issued + (IF rotate THEN 2 ELSE 1)
  /\ UNCHANGED <<login, register, page, alert, masjids, signals, destroyed, failedAuth, others>>

\* faulty variant: a 401 to the retry starts another refresh (a retry loop)
authFetchRetryResponse_again(c, status) ==
  /\ noMicrotask
  /\ calls[c].pc = "retry"
  /\ serverEffect(c, status)
  /\ IF needsRefresh(status)
     THEN calls' = [calls EXCEPT ![c].pc = "refresh", ![c].res = status,
                                 ![c].second = status,
                                 ![c].refreshes = calls[c].refreshes + 1]
     ELSE calls' = [calls EXCEPT ![c].pc = "return", ![c].res = status,
                                 ![c].second = status]
  /\ failedAuth' = failedAuth \cup answered401(c, status)
  /\ UNCHANGED <<localStorage, login, register, page, alert, issued, destroyed, others>>

\* line 60 settles with a response; line 63
authFetchRetryResponse(c, status) ==
  /\ noMicrotask
  /\ calls[c].pc = "retry"
  /\ serverEffect(c, status)
  /\ calls' = [calls EXCEPT ![c].pc = "return", ![c].res = status,
                              ![c].second = status]
  /\ failedAuth' = failedAuth \cup answered401(c, status)
  /\ UNCHANGED <<localStorage, login, register, page, alert, issued, destroyed, others>>

\* ------------------------------------------------- login, register, logout
idleLogin == [pc |-> "idle", username |-> "null", access |-> null, refresh |-> null]
idleRegister == [pc |-> "idle", username |-> "null", accountType |-> "null"]

\* The login page and the registration page are two documents; the model
\* follows one of the two forms at a time.
\* lines 734-752: the login form is submitted, POST /api/token/ is sent
loginSubmit(username) ==
  /\ noMicrotask
  /\ login.pc = "idle"
  /\ register.pc = "idle"
  /\ login' = [idleLogin EXCEPT !.pc = "token", !.username = username]
  /\ UNCHANGED <<localStorage, calls, register, page, alert, masjids, signals, issued, destroyed, failedAuth, others>>

\* lines 748-757, 790-793: a non-OK answer or no answer; an error is shown
loginFailed ==
  /\ noMicrotask
  /\ login.pc = "token"
  /\ login' = idleLogin
  /\ UNCHANGED <<localStorage, calls, register, page, alert, masjids, signals, issued, destroyed, failedAuth, others>>

\* lines 754-766: an OK answer {access, refresh}; the user lookup is sent
loginOk ==
  /\ noMicrotask
  /\ login.pc = "token"
  /\ issued + 2 <= MaxTok
  /\ login' = [login EXCEPT !.pc = "user", !.access = issued + 1, !.refresh = issued + 2]
  /\ issued' = issued + 2
  /\ UNCHANGED <<localStorage, calls, register, page, alert, masjids, signals, destroyed, failedAuth, others>>

\* lines 763-777: the user lookup settles (any answer, or none: it is
\* swallowed); the masjid-admin lookup is sent
loginUserInfo ==
  /\ noMicrotask
  /\ login.pc = "user"
  /\ login' = [login EXCEPT !.pc = "admin"]
  /\ UNCHANGED <<localStorage, calls, register, page, alert, masjids, signals, issued, destroyed, failedAuth, others>>

\* lines 762, 778-784: the account type the lookups leave in userInfo
loginUserRecord(username, isMasjidAdmin) ==
  [username |-> username,
   accountType |-> IF isMasjidAdmin THEN "masjid_admin" ELSE "user"]

\* lines 774-788: the masjid-admin lookup settles; the session is saved
loginSave(isMasjidAdmin) ==
  /\ noMicrotask
  /\ login.pc = "admin"
  /\ localStorage' = save(login.access, login.refresh,
                          loginUserRecord(login.username, isMasjidAdmin))
  /\ destroyed' = FALSE
  /\ login' = idleLogin
  /\ UNCHANGED <<calls, register, page, alert, masjids, signals, issued, failedAuth, others>>

\* lines 830-860: the registration form is submitted; with passwords that
\* differ nothing is sent (lines 841-846), else POST /api/users/ is sent
registerSubmit(username, accountType, passwordsMatch) ==
  /\ noMicrotask
  /\ register.pc = "idle"
  /\ login.pc = "idle"
  /\ register' = IF passwordsMatch
                 THEN [pc |-> "create", username |-> username, accountType |-> accountType]
                 ELSE idleRegister
  /\ UNCHANGED <<localStorage, calls, login, page, alert, masjids, signals, issued, destroyed, failedAuth, others>>

\* lines 862-866, 900-903: a non-OK answer or no answer to POST /api/users/
registerFailed ==
  /\ noMicrotask
  /\ register.pc = "create"
  /\ register' = idleRegister
  /\ UNCHANGED <<localStorage, calls, login, page, alert, masjids, signals, issued, destroyed, failedAuth, others>>

\* lines 862-873: the account was created; the auto-login POST /api/token/ is sent
registerCreated ==
  /\ noMicrotask
  /\ register.pc = "create"
  /\ register' = [register EXCEPT !.pc = "token"]
  /\ UNCHANGED <<localStorage, calls, login, page, alert, masjids, signals, issued, destroyed, failedAuth, others>>

\* lines 875, 892-898, 900-903: the auto-login is refused, or gets no answer
registerLoginFailed ==
  /\ noMicrotask
  /\ register.pc = "token"
  /\ register' = idleRegister
  /\ UNCHANGED <<localStorage, calls, login, page, alert, masjids, signals, issued, destroyed, failedAuth, others>>

\* lines 875-878: the auto-login answers {access, refresh}; the session is saved
registerSave ==
  /\ noMicrotask
  /\ register.pc = "token"
  /\ issued + 2 <= MaxTok
  /\ localStorage' = save(issued + 1, issued + 2,
                          [username |-> register.username,
                           accountType |-> register.accountType])
  /\ issued' = issued + 2
  /\ destroyed' = FALSE
  /\ register' = idleRegister
  /\ UNCHANGED <<calls, login, page, alert, masjids, signals, failedAuth, others>>

\* lines 714-718: the logout button is clicked, in any document of the
\* origin (localStorage is shared by its tabs)
logoutClick ==
  /\ noMicrotask
  /\ localStorage' = clear
  /\ destroyed' = TRUE
  /\ UNCHANGED <<calls, login, register, page, alert, masjids, signals, issued, failedAuth, others>>

\* ------------------------------------------------------------ report page
noPage ==
  [loaded |-> FALSE, isAdmin |-> FALSE, pending |-> FALSE,
   btn |-> [b \in Buttons |-> "absent"], masjidId |-> [b \in Buttons |-> 0]]

\* lines 933-988: the report page is loaded (a fresh document: no handler
\* of an earlier document is running)
initReport ==
  /\ noMicrotask
  /\ \A c \in Calls : calls[c].pc = "idle"
  /\ page' = IF ~isLoggedIn THEN noPage
             ELSE [noPage EXCEPT !.loaded = TRUE,
                                 !.isAdmin = (getUser.accountType = "masjid_admin"),
                                 !.pending = (getUser.accountType # "masjid_admin")]
  /\ alert' = "none"
  /\ UNCHANGED <<localStorage, calls, login, register, masjids, signals, issued, destroyed, failedAuth, others>>

Min(a, b) == IF a <= b THEN a ELSE b

\* line 1165: the server's inactive masjids, newest first
RECURSIVE pendingMasjids(_)
pendingMasjids(n) ==
  IF n = 0 THEN <<>>
  ELSE IF masjids[n].isActive THEN pendingMasjids(n - 1)
       ELSE <<masjids[n]>> \o pendingMasjids(n - 1)

\* lines 1163-1221: the list of pending masjids arrives; a button is bound
\* to each of the first PendingShown (the model follows those of ButtonSeq)
loadPendingMasjids ==
  /\ noMicrotask
  /\ page.pending
  /\ LET shown == SubSeq(pendingMasjids(Len(masjids)), 1,
                         Min(PendingShown, Len(pendingMasjids(Len(masjids)))))
     IN page' = [page EXCEPT
          !.pending = FALSE,
          !.btn = [b \in Buttons |->
                    IF \E i \in DOMAIN ButtonSeq : ButtonSeq[i] = b /\ i <= Len(shown)
                    THEN "ready" ELSE "absent"],
          !.masjidId = [b \in Buttons |->
                    IF \E i \in DOMAIN ButtonSeq : ButtonSeq[i] = b /\ i <= Len(shown)
                    THEN shown[CHOOSE i \in DOMAIN ButtonSeq : ButtonSeq[i] = b].masjidID
                    ELSE 0]]
  /\ UNCHANGED <<localStorage, calls, login, register, alert, masjids, signals, issued, destroyed, failedAuth, others>>

\* lines 1165, 73, 1224-1226: the list request fails; no button is bound
loadPendingFailed ==
  /\ noMicrotask
  /\ page.pending
  /\ page' = [page EXCEPT !.pending = FALSE]
  /\ UNCHANGED <<localStorage, calls, login, register, alert, masjids, signals, issued, destroyed, failedAuth, others>>

\* lines 1205-1211: the body of a corroboration signal
verifyBody(masjidId, user) ==
  [noBody EXCEPT !.masjid = masjidId, !.signalType = "ACTIVE",
                 !.sourceType = "USER", !.user = user.username]

\* lines 1195-1212: a verify button is clicked
verifyClick(b) ==
  /\ noMicrotask
  /\ page.btn[b] \in {"ready", "failed"}
  /\ page' = [page EXCEPT !.btn[b] = "busy"]
  /\ calls' = [calls EXCEPT ![b] = authFetchSend("signals", verifyBody(page.masjidId[b], getUser))]
  /\ UNCHANGED <<localStorage, login, register, alert, masjids, signals, issued, destroyed, failedAuth, others>>

\* lines 1213-1219: authFetch returned (any response) or threw
verifyReturn(b) ==
  /\ runnable(b)
  /\ calls[b].pc = "return"
  /\ page' = [page EXCEPT !.btn[b] = IF calls[b].thrown THEN "failed" ELSE "verified"]
  /\ calls' = [calls EXCEPT ![b] = idleCall]
  /\ UNCHANGED <<localStorage, login, register, alert, masjids, signals, issued, destroyed, failedAuth, others>>

\* ---------------------------------------------------- submitMasjidReport
\* faulty variant: every masjid is submitted as active
masjidBody_alwaysActive(name, desc, isAdmin) ==
  [noBody EXCEPT !.name = name, !.description = desc, !.isActive = TRUE]

\* lines 1074-1078: the body of the masjid creation
masjidBody(name, desc, isAdmin) ==
  [noBody EXCEPT !.name = name, !.description = desc, !.isActive = isAdmin]

\* faulty variant: the initial signal is a user's, whoever submits
signalBody_asUser(masjidId, isAdmin, user) ==
  [noBody EXCEPT !.masjid = masjidId, !.signalType = "ACTIVE",
                 !.sourceType = "USER", !.user = user.username]

\* lines 1109-1115: the body of the initial signal
signalBody(masjidId, isAdmin, user) ==
  [noBody EXCEPT !.masjid = masjidId,
                 !.signalType = IF isAdmin THEN "ADMIN_VERIFY" ELSE "ACTIVE",
                 !.sourceType = IF isAdmin THEN "ADMIN" ELSE "USER",
                 !.user = user.username]

\* lines 1043-1079: the report form is submitted
submitMasjidReport(name, desc, fieldsOk) ==
  /\ noMicrotask
  /\ page.loaded
  /\ calls[ReportCall].pc = "idle"
  /\ IF name = "" \/ ~fieldsOk
     THEN /\ alert' = "danger"
          /\ UNCHANGED calls
     ELSE /\ alert' = "none"
          /\ calls' = [calls EXCEPT ![ReportCall] =
                         authFetchSend("masjids", masjidBody(name, desc, page.isAdmin))]
  /\ UNCHANGED <<localStorage, login, register, page, masjids, signals, issued, destroyed, failedAuth, others>>

\* lines 1146-1149: an authFetch of the submission threw
submitThrown ==
  /\ runnable(ReportCall)
  /\ calls[ReportCall].pc = "return"
  /\ calls[ReportCall].thrown
  /\ alert' = "danger"
  /\ calls' = [calls EXCEPT ![ReportCall] = idleCall]
  /\ UNCHANGED <<localStorage, login, register, page, masjids, signals, issued, destroyed, failedAuth, others>>

\* lines 1081-1085: the masjid creation was refused
submitMasjidRefused ==
  /\ runnable(ReportCall)
  /\ calls[ReportCall].pc = "return"
  /\ calls[ReportCall].url = "masjids"
  /\ ~calls[ReportCall].thrown
  /\ ~ok(calls[ReportCall].res)
  /\ alert' = "danger"
  /\ calls' = [calls EXCEPT ![ReportCall] = idleCall]
  /\ UNCHANGED <<localStorage, login, register, page, masjids, signals, issued, destroyed, failedAuth, others>>

\* lines 1087-1101: the masjid was created; its location record is sent
submitLocation ==
  /\ runnable(ReportCall)
  /\ calls[ReportCall].pc = "return"
  /\ calls[ReportCall].url = "masjids"
  /\ ~calls[ReportCall].thrown
  /\ ok(calls[ReportCall].res)
  /\ calls' = [calls EXCEPT ![ReportCall] =
                 authFetchSend("location-records", [noBody EXCEPT !.masjid = Len(masjids)])]
  /\ UNCHANGED <<localStorage, login, register, page, alert, masjids, signals, issued, destroyed, failedAuth, others>>

\* lines 1103-1121: whatever the location answer, the initial signal is sent
submitSignal ==
  /\ runnable(ReportCall)
  /\ calls[ReportCall].pc = "return"
  /\ calls[ReportCall].url = "location-records"
  /\ ~calls[ReportCall].thrown
  /\ calls' = [calls EXCEPT ![ReportCall] =
                 authFetchSend("signals",
                   signalBody(calls[ReportCall].body.masjid, page.isAdmin, getUser))]
  /\ UNCHANGED <<localStorage, login, register, page, alert, masjids, signals, issued, destroyed, failedAuth, others>>

\* faulty variant: line 1124 without `isAdmin &&`
submitAdminLink_anyRole ==
  /\ runnable(ReportCall)
  /\ calls[ReportCall].pc = "return"
  /\ calls[ReportCall].url = "signals"
  /\ ~calls[ReportCall].thrown
  /\ calls[ReportCall].body.user # "null"
  /\ calls' = [calls EXCEPT ![ReportCall] =
                 authFetchSend("masjid-admins",
                   [noBody EXCEPT !.masjid = calls[ReportCall].body.masjid,
                                  !.user = calls[ReportCall].body.user])]
  /\ UNCHANGED <<localStorage, login, register, page, alert, masjids, signals, issued, destroyed, failedAuth, others>>

\* lines 1123-1134: an admin with a username links the masjid to the account
submitAdminLink ==
  /\ runnable(ReportCall)
  /\ calls[ReportCall].pc = "return"
  /\ calls[ReportCall].url = "signals"
  /\ ~calls[ReportCall].thrown
  /\ page.isAdmin /\ calls[ReportCall].body.user # "null"
  /\ calls' = [calls EXCEPT ![ReportCall] =
                 authFetchSend("masjid-admins",
                   [noBody EXCEPT !.masjid = calls[ReportCall].body.masjid,
                                  !.user = calls[ReportCall].body.user])]
  /\ UNCHANGED <<localStorage, login, register, page, alert, masjids, signals, issued, destroyed, failedAuth, others>>

\* lines 1136-1144: the success alert
submitSuccess ==
  /\ runnable(ReportCall)
  /\ calls[ReportCall].pc = "return"
  /\ ~calls[ReportCall].thrown
  /\ \/ calls[ReportCall].url = "masjid-admins"
     \/ /\ calls[ReportCall].url = "signals"
        /\ ~(page.isAdmin /\ calls[ReportCall].body.user # "null")
  /\ alert' = "success"
  /\ calls' = [calls EXCEPT ![ReportCall] = idleCall]
  /\ UNCHANGED <<localStorage, login, register, page, masjids, signals, issued, destroyed, failedAuth, others>>

\* -------------------------------------------------- server: ActivationGate
\* The server is not part of app.js.  Its submission and corroboration are
\* the reference design the client is written against: a submission stores
\* the masjid and the initial signal the client sends (lines 1074-1121) as
\* one unit, a corroboration stores the signal of a verify button (lines
\* 1205-1211) under the exclusion of its masjid.
idleWorker ==
  [pc |-> "idle", masjid |-> 0, user |-> "null", held |-> 0,
   dup |-> FALSE, listed |-> FALSE, count |-> 0, result |-> "none"]

\* requests that will still write a signal
writing == {w \in Workers : workers[w].pc \in {"called", "locked"}}

signalsOf(m) == {i \in DOMAIN signals : signals[i].masjid = m}

\* submit(venueDraft, submitterRole, submitterIdentity)
gateSubmit(role, user) ==
  /\ Len(masjids) < MaxMasjids
  /\ Len(signals) + Cardinality(writing) < MaxSignals
  /\ LET isAdmin == role = "ADMIN"
         m == serverCreateMasjid(masjidBody("Al-Noor", "", isAdmin), role)
         s == serverSignal(signalBody(m.masjidID, isAdmin, [nullUser EXCEPT !.username = user]),
                           TRUE, ~m.isActive)
     IN /\ masjids' = Append(masjids, m)
        /\ signals' = Append(signals, s)
  /\ UNCHANGED <<client, workers, lock, badges, now, verify, detail>>

\* corroborate(venueId, USER, submitterIdentity) is requested; the worker
\* keeps (history) how many signals the masjid held at that moment and, until
\* its next request, the answer it gave
corroborateCall(w, m, user) ==
  /\ workers[w].pc = "idle"
  /\ m \in DOMAIN masjids
  /\ Len(signals) + Cardinality(writing) < MaxSignals
  /\ workers' = [workers EXCEPT ![w] =
       [idleWorker EXCEPT !.pc = "called", !.masjid = m, !.user = user,
                          !.held = Cardinality(signalsOf(m))]]
  /\ UNCHANGED <<client, masjids, signals, lock, badges, now, verify, detail>>

\* faulty variant: no exclusion per masjid
lockFree_unguarded(m) == TRUE

\* the per-masjid exclusion is available
lockFree(m) == lock[m] = "free"

\* the request takes the exclusion of its masjid and reads: is the signal a
\* duplicate, is the masjid listed, how many distinct submitters would it have
corroborateBegin(w) ==
  /\ workers[w].pc = "called"
  /\ lockFree(workers[w].masjid)
  /\ LET m == workers[w].masjid
         s == serverSignal(verifyBody(m, [nullUser EXCEPT !.username = workers[w].user]),
                           FALSE, ~masjids[m].isActive)
     IN workers' = [workers EXCEPT ![w].pc = "locked",
                      ![w].dup = duplicateSignal(masjids[m].isActive, signals, s),
                      ![w].listed = masjids[m].isActive,
                      ![w].count = distinctSubmitters(Append(signals, s), m)]
  /\ lock' = [lock EXCEPT ![workers[w].masjid] = w]
  /\ UNCHANGED <<client, masjids, signals, badges, now, verify, detail>>

\* the request decides on what it read, writes, releases the exclusion and
\* answers
corroborateCommit(w) ==
  /\ workers[w].pc = "locked"
  /\ LET m == workers[w].masjid
         s == serverSignal(verifyBody(m, [nullUser EXCEPT !.username = workers[w].user]),
                           FALSE, ~workers[w].listed)
         g == gateWrite(masjids, signals, s, workers[w].listed, workers[w].count)
     IN IF workers[w].dup
        THEN /\ workers' = [workers EXCEPT ![w].pc = "idle", ![w].result = "DuplicateSignal"]
             /\ UNCHANGED <<masjids, signals>>
        ELSE /\ workers' = [workers EXCEPT ![w].pc = "idle", ![w].result = "ok"]
             /\ masjids' = g.masjids
             /\ signals' = g.signals
  /\ lock' = [lock EXCEPT ![workers[w].masjid] = "free"]
  /\ UNCHANGED <<client, badges, now, verify, detail>>

\* --------------------------------------------------- server: badges, clock
\* A badge's verification token is its position in `badges`; every other
\* token is unknown.  expiryDate 0 is an absent expiry.
tick ==
  /\ now < MaxNow
  /\ now' = now + 1
  /\ UNCHANGED <<client, masjids, signals, workers, lock, badges, verify, detail>>

\* issue(venueId, issuerIdentity): a badge for a listed masjid
issueBadge(m, expiry) ==
  /\ Len(badges) < MaxBadges
  /\ m \in DOMAIN masjids
  /\ masjids[m].isActive
  /\ expiry = 0 \/ expiry > now
  /\ badges' = Append(badges,
       [masjid |-> m, isActive |-> TRUE, isRevoked |-> FALSE,
        issuedAt |-> now, expiryDate |-> expiry])
  /\ UNCHANGED <<client, masjids, signals, workers, lock, now, verify, detail>>

\* revoke(badgeId, actorIdentity)
revokeBadge(i) ==
  /\ i \in DOMAIN badges
  /\ badges' = [badges EXCEPT ![i].isRevoked = TRUE]
  /\ UNCHANGED <<client, masjids, signals, workers, lock, now, verify, detail>>

\* effective validity of badge b at instant t
effectiveValid(b, t) ==
  b.isActive /\ ~b.isRevoked /\ (b.expiryDate = 0 \/ b.expiryDate > t)

noData == [valid |-> FALSE, masjidID |-> 0, issuedAt |-> 0, expiresAt |-> 0]

\* faulty variant: the answer for a known token names its masjid and dates
\* whatever the badge's validity
resolve_detailed(token) ==
  IF token \in DOMAIN badges
  THEN [valid |-> effectiveValid(badges[token], now), masjidID |-> badges[token].masjid,
        issuedAt |-> badges[token].issuedAt, expiresAt |-> badges[token].expiryDate]
  ELSE noData

\* resolve(token): the answer of GET /api/verify/<token>/
resolve(token) ==
  IF token \in DOMAIN badges /\ effectiveValid(badges[token], now)
  THEN [valid |-> TRUE, masjidID |-> badges[token].masjid,
        issuedAt |-> badges[token].issuedAt, expiresAt |-> badges[token].expiryDate]
  ELSE noData

\* ------------------------------------------------------------- verify page
noCard == [title |-> "Verifying", rows |-> {}, masjidID |-> 0, issued |-> 0, expires |-> 0]

idleVerify ==
  [pc |-> "idle", token |-> 0, authorization |-> null, answered |-> FALSE,
   data |-> noData, card |-> noCard]

\* faulty variant: the lookup carries the stored access credential
apiFetchSend_withHeader(token) ==
  [idleVerify EXCEPT !.pc = "fetch", !.token = token, !.authorization = getAccess]

\* lines 67-72: fetch(url) with no options, so no Authorization header
apiFetchSend(token) ==
  [idleVerify EXCEPT !.pc = "fetch", !.token = token]

\* lines 646-653: the page is opened for `token` (0: the card carries none)
initVerify(token) ==
  /\ verify' = IF token = 0 THEN idleVerify ELSE apiFetchSend(token)
  /\ UNCHANGED <<client, masjids, signals, workers, lock, badges, now, detail>>

\* faulty variant: the masjid and the dates are rendered whatever data.valid
verifyCard_always(data) ==
  [title |-> IF data.valid THEN "Badge Verified" ELSE "Badge Invalid",
   rows |-> {"Masjid", "Issued", "Expires", "View Masjid"},
   masjidID |-> data.masjidID, issued |-> data.issuedAt, expires |-> data.expiresAt]

\* lines 658-680: what the card shows for the answer `data` (masjidID stands
\* for data.masjid and data.masjidID); a date of 0 is absent and rendered as
\* 'N/A' (issued) or 'No expiry' (expires)
verifyCard(data) ==
  IF data.valid
  THEN [title |-> "Badge Verified",
        rows |-> {"Masjid", "Issued", "Expires", "View Masjid"},
        masjidID |-> data.masjidID, issued |-> data.issuedAt, expires |-> data.expiresAt]
  ELSE [noCard EXCEPT !.title = "Badge Invalid"]

\* lines 72-74, 653-680: the lookup is answered OK with the resolver's result
verifyResponse ==
  /\ verify.pc = "fetch"
  /\ verify' = [verify EXCEPT !.pc = "shown", !.answered = TRUE,
                              !.data = resolve(verify.token),
                              !.card = verifyCard(resolve(verify.token))]
  /\ UNCHANGED <<client, masjids, signals, workers, lock, badges, now, detail>>

\* lines 72-73, 682-687: fetch rejected, or the answer is not OK or not JSON
verifyFailed ==
  /\ verify.pc = "fetch"
  /\ verify' = [verify EXCEPT !.pc = "shown",
                              !.card = [noCard EXCEPT !.title = "Badge Not Found"]]
  /\ UNCHANGED <<client, masjids, signals, workers, lock, badges, now, detail>>

\* ------------------------------------------------------------- detail page
noDetail == [loaded |-> FALSE, masjid |-> 0, cards |-> <<>>]

\* lines 608-610: the label of a badge card
badgeLabel(b) == IF b.isActive /\ ~b.isRevoked THEN "Valid" ELSE "Revoked"

\* the badges of masjid m, oldest first
RECURSIVE badgesOf(_, _)
badgesOf(m, n) ==
  IF n = 0 THEN <<>>
  ELSE IF badges[n].masjid = m THEN Append(badgesOf(m, n - 1), badges[n])
       ELSE badgesOf(m, n - 1)

\* lines 601-622: the badges of masjid m arrive and are rendered; with each
\* card the model keeps (history) the badge's effective validity at that instant
initDetail(m) ==
  /\ m \in DOMAIN masjids
  /\ LET bs == badgesOf(m, Len(badges))
     IN detail' = [loaded |-> TRUE, masjid |-> m,
                   cards |-> [i \in DOMAIN bs |->
                                [label |-> badgeLabel(bs[i]), expires |-> bs[i].expiryDate,
                                 valid |-> effectiveValid(bs[i], now)]]]
  /\ UNCHANGED <<client, masjids, signals, workers, lock, badges, now, verify>>

\* ------------------------------------------------------------------ Spec
Init ==
  /\ localStorage = clear
  /\ calls = [c \in Calls |-> idleCall]
  /\ login = idleLogin
  /\ register = idleRegister
  /\ page = noPage
  /\ alert = "none"
  /\ masjids = <<>>
  /\ signals = <<>>
  /\ issued = 0
  /\ destroyed = FALSE
  /\ failedAuth = {}
  /\ workers = [w \in Workers |-> idleWorker]
  /\ lock = [m \in 1..MaxMasjids |-> "free"]
  /\ badges = <<>>
  /\ now = 1
  /\ verify = idleVerify
  /\ detail = noDetail

Next ==
  \/ \E c \in Calls, status \in Statuses : authFetchResponse(c, status)
  \/ \E c \in Calls : authFetchRejected(c)
  \/ \E c \in Calls : refreshTokenFailed(c)
  \/ \E c \in Calls : refreshTokenOk(c)
  \/ \E c \in Calls : refreshTokenBodyFailed(c)
  \/ \E c \in Calls, rotate \in BOOLEAN : refreshTokenBody(c, rotate)
  \/ \E c \in Calls, status \in Statuses : authFetchRetryResponse(c, status)
  \/ \E u \in Usernames : loginSubmit(u)
  \/ loginFailed
  \/ loginOk
  \/ loginUserInfo
  \/ \E a \in BOOLEAN : loginSave(a)
  \/ \E u \in Usernames, t \in AccountTypes, m \in BOOLEAN : registerSubmit(u, t, m)
  \/ registerFailed
  \/ registerCreated
  \/ registerLoginFailed
  \/ registerSave
  \/ logoutClick
  \/ initReport
  \/ loadPendingMasjids
  \/ loadPendingFailed
  \/ \E b \in Buttons : verifyClick(b)
  \/ \E b \in Buttons : verifyReturn(b)
  \/ \E n \in Names, d \in Descs, f \in BOOLEAN : submitMasjidReport(n, d, f)
  \/ submitThrown
  \/ submitMasjidRefused
  \/ submitLocation
  \/ submitSignal
  \/ submitAdminLink
  \/ submitSuccess

Spec == Init /\ [][Next]_vars

\* The server's activation gate under the requests of any number of clients.
NextGate ==
  \/ \E r \in Roles, u \in Submitters : gateSubmit(r, u)
  \/ \E w \in Workers, m \in 1..MaxMasjids, u \in Submitters : corroborateCall(w, m, u)
  \/ \E w \in Workers : corroborateBegin(w)
  \/ \E w \in Workers : corroborateCommit(w)

SpecGate == Init /\ [][NextGate]_vars

\* The badge pages.  The browser may hold a session stored by an earlier
\* document (localStorage outlives the page).
InitVerify ==
  /\ localStorage \in {clear, save(1, 2, [username |-> "amina", accountType |-> "masjid_admin"])}
  /\ issued = IF localStorage = clear THEN 0 ELSE 2
  /\ calls = [c \in Calls |-> idleCall]
  /\ login = idleLogin
  /\ register = idleRegister
  /\ page = noPage
  /\ alert = "none"
  /\ masjids = <<>>
  /\ signals = <<>>
  /\ destroyed = FALSE
  /\ failedAuth = {}
  /\ workers = [w \in Workers |-> idleWorker]
  /\ lock = [m \in 1..MaxMasjids |-> "free"]
  /\ badges = <<>>
  /\ now = 1
  /\ verify = idleVerify
  /\ detail = noDetail

NextVerify ==
  \/ gateSubmit("ADMIN", "amina")
  \/ \E m \in 1..MaxMasjids, e \in 0..MaxNow : issueBadge(m, e)
  \/ \E i \in 1..MaxBadges : revokeBadge(i)
  \/ tick
  \/ logoutClick
  \/ \E t \in 0..(MaxBadges + 1) : initVerify(t)
  \/ verifyResponse
  \/ verifyFailed
  \/ \E m \in 1..MaxMasjids : initDetail(m)

SpecVerify == InitVerify /\ [][NextVerify]_vars

\* The confidence engine over any evidence: every signal one masjid can
\* receive, of either kind, from any submitter, initial or not, in any order.
Evidence ==
  {serverSignal([masjid |-> 1, signalType |-> k.signalType,
                 sourceType |-> k.sourceType, user |-> u], i, TRUE) :
     k \in {[signalType |-> "ADMIN_VERIFY", sourceType |-> "ADMIN"],
            [signalType |-> "ACTIVE", sourceType |-> "USER"]},
     u \in Submitters, i \in BOOLEAN}

\* one more signal is written for a masjid
appendSignal(s) ==
  /\ Len(signals) < MaxSignals
  /\ signals' = Append(signals, s)
  /\ UNCHANGED <<client, masjids, others>>

NextLevel == \E s \in Evidence : appendSignal(s)

SpecLevel == Init /\ [][NextLevel]_vars

\* ---------------------------------------------------------------- claims
sent(c) == calls[c].pc # "fetch" /\ calls'[c].pc = "fetch"

\* C1: one authFetch call attempts at most one refresh and sends the request
\* at most twice; a 401 to the retry is what the call returns, with no
\* further refresh and no further send.
C1_OneRefreshOneRetry ==
  \A c \in Calls :
    /\ calls[c].refreshes <= 1
    /\ calls[c].sends <= 2
    /\ calls[c].second = 401 =>
         /\ calls[c].pc = "return" /\ ~calls[c].thrown /\ calls[c].res = 401
         /\ calls[c].sends = 2 /\ calls[c].refreshes = 1

C1_Witness == \E c \in Calls : calls[c].second = 401 /\ calls[c].first = 401

\* C2: when the refresh that follows a 401 fails, the same step clears the
\* whole session, sends no retry and returns the first (401) response.
C2_FailedRefreshDiscardsSession ==
  [][\A c \in Calls :
       (/\ calls[c].pc \in {"refresh", "refreshBody"}
        /\ calls'[c].pc \notin {"refresh", "refreshBody"}
        /\ calls'[c].got = null)
       => /\ localStorage' = clear
          /\ calls'[c].pc = "return"
          /\ calls'[c].sends = 1
          /\ ~calls'[c].thrown
          /\ calls'[c].res = 401]_vars

C2_Witness ==
  \E c \in Calls :
    /\ calls[c].pc = "return" /\ calls[c].refreshed = "false"
    /\ calls[c].res = 401 /\ calls[c].sends = 1
    /\ localStorage = clear

\* C3: at most one token refresh is in flight at any time.
C3_SingleRefreshInFlight ==
  Cardinality({c \in Calls : calls[c].pc \in {"refresh", "refreshBody"}}) <= 1

\* C4: once the session was destroyed, and until Auth.save, isLoggedIn() is
\* false and every authFetch call issued is sent without a credential.
C4_DestroyedStaysLoggedOut ==
  /\ [](destroyed => ~isLoggedIn)
  /\ [][\A c \in Calls :
          (destroyed' /\ calls'[c].pc \in {"fetch", "retry"} /\ calls'[c].sends # calls[c].sends)
          => calls'[c].authorization = null]_vars

\* C5: after one 401 and a successful refresh exactly one retry was sent, it
\* carries the access credential that refresh obtained (not the one of the
\* first send, not none), and the response returned is the retry's.
C5_RetryCarriesNewCredential ==
  \A c \in Calls :
    calls[c].refreshed = "true" =>
      /\ calls[c].first = 401
      /\ calls[c].sends = 2
      /\ calls[c].got # null
      /\ calls[c].authorization = calls[c].got
      /\ calls[c].authorization # calls[c].stale
      /\ (calls[c].pc = "return" /\ ~calls[c].thrown) =>
           calls[c].second # NoResponse /\ calls[c].res = calls[c].second

C5_Witness ==
  \E c \in Calls :
    /\ calls[c].pc = "return" /\ calls[c].refreshed = "true"
    /\ calls[c].first = 401 /\ calls[c].res = 200
    /\ calls[c].stale # null

C7_NoReuseAfter401 ==
  [][\A c \in Calls :
       (sent(c) /\ calls'[c].authorization # null)
       => calls'[c].authorization \notin failedAuth]_vars

\* C8: a request goes out with the stored access credential when one is
\* stored and with none when none is stored; a click on a verify button is
\* taken whether or not a credential is held.
C8_AttachesStoredCredential ==
  /\ [][\A c \in Calls :
          sent(c) => /\ calls'[c].authorization = localStorage.al_access
                     /\ calls'[c].sends = 1]_vars
  /\ [](\A b \in Buttons :
          (page.btn[b] \in {"ready", "failed"} /\ noMicrotask) => ENABLED verifyClick(b))

C8_Witness ==
  /\ getAccess = null
  /\ \E c \in Calls : calls[c].pc = "fetch" /\ calls[c].authorization = null

\* C9: the session is created only by a login or registration that
\* succeeded, changed otherwise only by a successful refresh, cleared only by
\* logout or a failed refresh; a failed login or registration leaves it.
C9_SessionLifecycle ==
  [][/\ (~isLoggedIn /\ isLoggedIn') =>
          (\E a \in BOOLEAN : loginSave(a)) \/ registerSave
     /\ (localStorage # clear /\ localStorage' = clear) =>
          \/ logoutClick
          \/ \E c \in Calls : refreshTokenFailed(c) \/ refreshTokenBodyFailed(c)
     /\ (localStorage' # localStorage) =>
          \/ (\E a \in BOOLEAN : loginSave(a)) \/ registerSave
          \/ logoutClick
          \/ \E c \in Calls : refreshTokenFailed(c) \/ refreshTokenBodyFailed(c)
          \/ \E c \in Calls, rotate \in BOOLEAN : refreshTokenBody(c, rotate)
     /\ (loginFailed \/ registerFailed \/ registerLoginFailed
         \/ \E u \in Usernames, t \in AccountTypes : registerSubmit(u, t, FALSE))
          => localStorage' = localStorage]_vars

\* C10: a masjid submitted by a masjid admin is created listed, one submitted
\* by a user is created unlisted: as long as no corroboration has listed it, a
\* masjid is listed exactly when an admin submitted it.
C10_RoleDecidesListing ==
  \A i \in DOMAIN masjids :
    masjids[i].flips = 0 => masjids[i].isActive = (masjids[i].role = "ADMIN")

C10_Witness ==
  \E i \in DOMAIN masjids :
    /\ masjids[i].role = "ADMIN" /\ masjids[i].isActive

C12_EveryMasjidHasSignal ==
  calls[ReportCall].pc = "idle" => \A m \in DOMAIN masjids : signalsOf(m) # {}

\* C13: the submission shows its success alert only when the masjid's initial
\* signal was stored, and a verify button shows "Verified" only when its
\* signal request was answered OK.
C13_SuccessOnlyWhenAccepted ==
  [][/\ (calls[ReportCall].url \in {"signals", "masjid-admins"} /\ alert' = "success") =>
          \E i \in signalsOf(calls[ReportCall].body.masjid) : signals[i].initial
     /\ \A b \in Buttons :
          (page.btn[b] = "busy" /\ page'.btn[b] = "verified") => ok(calls[b].res)]_vars

C15_ValidOnlyIfEffective ==
  \A i \in DOMAIN detail.cards :
    (detail.cards[i].label = "Valid") = detail.cards[i].valid

\* C16: the verification lookup never carries an access credential, and no
\* step of the verify page changes the session, starts a refresh or changes
\* a masjid, a signal or a badge.
C16_ResolutionPublicReadOnly ==
  /\ [](verify.authorization = null)
  /\ [][verify' # verify =>
          UNCHANGED <<localStorage, calls, issued, masjids, signals, badges>>]_vars

C16_Witness == verify.pc = "shown" /\ verify.answered /\ isLoggedIn

\* C17: the card names a masjid, links to it or shows a date only when the
\* answer was valid = true, and an answer valid = false carries none of them.
C17_DetailsOnlyWhenValid ==
  /\ (verify.card.rows # {} \/ verify.card.masjidID # 0
        \/ verify.card.issued # 0 \/ verify.card.expires # 0)
       => (verify.answered /\ verify.data.valid)
  /\ (verify.answered /\ ~verify.data.valid) =>
       (verify.data.masjidID = 0 /\ verify.data.issuedAt = 0 /\ verify.data.expiresAt = 0)
  /\ (verify.answered /\ verify.data.valid) =>
       (verify.card.title = "Badge Verified" /\ verify.card.masjidID = verify.data.masjidID)

C17_Witness ==
  /\ verify.pc = "shown" /\ verify.answered /\ ~verify.data.valid
  /\ verify.token \in DOMAIN badges

\* C18: a masjid submitted by a user is listed exactly when its distinct
\* USER submitters (initial signal and corroborations) number 3 or more, it
\* becomes listed in the step that brings them to 3, and no step unlists a
\* listed masjid.
C18_ListedAtThree ==
  /\ [](\A m \in DOMAIN masjids : masjids[m].role = "USER" =>
          (masjids[m].isActive <=> distinctSubmitters(signals, m) >= 3))
  /\ [][\A m \in DOMAIN masjids :
          /\ masjids[m].isActive => masjids'[m].isActive
          /\ (~masjids[m].isActive /\ masjids'[m].isActive) =>
               (distinctSubmitters(signals, m) = 2 /\ distinctSubmitters(signals', m) = 3)]_vars

C18_Witness ==
  \E m \in DOMAIN masjids :
    /\ masjids[m].role = "USER" /\ masjids[m].isActive
    /\ distinctSubmitters(signals, m) = 3

\* C19: a masjid never holds two corroborations written while it was
\* unlisted by the same identity, and the corroboration answered
\* DuplicateSignal writes no signal, however the requests interleave.
C19_NoDoubleCorroboration ==
  /\ [](\A i, j \in DOMAIN signals :
          (/\ i < j
           /\ signals[i].masjid = signals[j].masjid
           /\ signals[i].user = signals[j].user /\ signals[i].user # "null"
           /\ ~signals[i].initial /\ ~signals[j].initial
           /\ signals[i].pending)
          => ~signals[j].pending)
  /\ [][\A w \in Workers :
          (workers[w].pc = "locked" /\ workers'[w].result = "DuplicateSignal")
            => signals' = signals]_vars

C19_Witness ==
  \E w, v \in Workers :
    /\ w # v
    /\ workers[w].result = "DuplicateSignal" /\ workers[v].result = "ok"
    /\ workers[w].masjid = workers[v].masjid /\ workers[w].user = workers[v].user
    /\ workers[w].held = workers[v].held

\* C20: once the corroborations requested for a masjid are committed, a
\* user's masjid is listed if and only if its distinct submitters number 3
\* or more, and no masjid goes from unlisted to listed more than once.
C20_ConcurrentCorroboration ==
  \A m \in DOMAIN masjids :
    /\ masjids[m].flips <= 1
    /\ (/\ masjids[m].role = "USER"
        /\ \A w \in Workers : workers[w].masjid = m => workers[w].pc = "idle")
       => (masjids[m].isActive <=> distinctSubmitters(signals, m) >= 3)

C20_Witness ==
  \E w, v \in Workers :
    /\ w # v
    /\ workers[w].pc = "idle" /\ workers[v].pc = "idle"
    /\ workers[w].result = "ok" /\ workers[v].result = "ok"
    /\ workers[w].masjid = workers[v].masjid
    /\ workers[w].user # workers[v].user
    /\ workers[w].user # "null" /\ workers[v].user # "null"
    /\ workers[w].held = 2 /\ workers[v].held = 2
    /\ masjids[workers[w].masjid].isActive /\ masjids[workers[w].masjid].flips = 1

\* C21: computeLevel is monotone over appended evidence: whatever signal is
\* appended to whatever signal sequence, the level of no masjid goes down.
C21_LevelMonotone ==
  [][computeLevel(signals', 1) >= computeLevel(signals, 1)]_vars

\* every level is passed on the way up: a bare initial signal (0), a
\* corroboration (1), a third submitter (2), then an ADMIN_VERIFY (3)
C21_Witness ==
  /\ Len(signals) = 4
  /\ computeLevel(SubSeq(signals, 1, 1), 1) = 0
  /\ computeLevel(SubSeq(signals, 1, 2), 1) = 1
  /\ computeLevel(SubSeq(signals, 1, 3), 1) = 2
  /\ computeLevel(signals, 1) = 3

\* C22: the stored session is all-or-nothing under every interleaving: the
\* access credential, the refresh credential and the cached user are all
\* present or all absent.
C22_SessionAllOrNothing ==
  /\ (getAccess # null) = (getRefresh # null)
  /\ (getAccess # null) = (getUser # nullUser)

\* C23: when the original request of an authFetch call is answered 401 and no
\* refresh credential is stored, the call sends no refresh request and no
\* retry, returns the 401 response, and leaves the stored session unchanged.
C23_NoRefreshWithoutCredential ==
  [][\A c \in Calls :
       (calls[c].pc = "fetch" /\ calls'[c].first = 401 /\ getRefresh = null)
       => /\ calls'[c].pc = "return"
          /\ calls'[c].res = 401
          /\ ~calls'[c].thrown
          /\ calls'[c].refreshes = 0
          /\ calls'[c].sends = 1
          /\ calls'[c].second = NoResponse
          /\ localStorage' = localStorage]_vars

\* a call returned its 401 with no refresh attempted, an access credential
\* still stored and no refresh credential
C23_Witness ==
  \E c \in Calls :
    /\ calls[c].pc = "return"
    /\ calls[c].first = 401
    /\ calls[c].res = 401
    /\ calls[c].refreshes = 0
    /\ calls[c].authorization # null
    /\ getAccess # null
    /\ getRefresh = null

\* C24: a successful refresh replaces the stored access credential with the
\* new one, replaces the stored refresh credential only when the response
\* carries a new one (the old one is kept otherwise), and leaves the cached
\* user unchanged.
C24_RefreshReplacesAccessOnly ==
  [][\A c \in Calls :
       (calls[c].pc = "refreshBody" /\ calls'[c].pc = "retry")
       => /\ calls'[c].got = issued + 1
          /\ localStorage'.al_access = calls'[c].got
          /\ localStorage'.al_refresh = IF issued' = issued + 2 THEN issued + 2
                                        ELSE localStorage.al_refresh
          /\ localStorage'.al_user = localStorage.al_user]_vars

\* a refresh whose answer carried no refresh credential has just succeeded:
\* the new access credential stands beside the older refresh credential and
\* the user
C24_Witness ==
  \E c \in Calls :
    /\ calls[c].pc = "retry"
    /\ calls[c].got = getAccess
    /\ getRefresh # null
    /\ getRefresh < getAccess
    /\ getUser # nullUser

\* C25: submitMasjidReport sends its requests in the order masjid, location
\* record, initial signal, admin link: a refused masjid creation ends the
\* submission with a failure alert and no further request; the signal request
\* follows the location answer whether it is OK or not; the admin link is
\* sent only after the signal and only for an admin submitter.
C25_RequestOrder ==
  [][LET r == calls[ReportCall]
         q == calls'[ReportCall]
     IN /\ sent(ReportCall) =>
             \/ q.url = "masjids" /\ r.pc = "idle"
             \/ q.url = "location-records" /\ r.url = "masjids" /\ ok(r.res)
             \/ q.url = "signals" /\ r.url = "location-records"
             \/ q.url = "masjid-admins" /\ r.url = "signals" /\ page.isAdmin
        /\ (r.pc = "return" /\ r.url = "masjids" /\ ~r.thrown /\ ~ok(r.res) /\ q # r)
             => q = idleCall /\ alert' = "danger"
        /\ (r.pc = "return" /\ r.url = "location-records" /\ ~r.thrown /\ q # r)
             => sent(ReportCall) /\ q.url = "signals"]_vars

\* the last request of an admin's submission, the admin link, is in flight
C25_Witness ==
  /\ calls[ReportCall].pc = "fetch"
  /\ calls[ReportCall].url = "masjid-admins"
  /\ page.isAdmin
  /\ Len(masjids) = 1

====
